---- MODULE Spec2Model ----
(* N-dimensional tic-tac-toe (src/src/lib.rs): a Game of `dimensions` axes  *)
(* and side `board_size`, mutated only by Game::set.                        *)
EXTENDS Naturals, Sequences, FiniteSets

\* ---------------------------------------------------------------- bounds
\* Largest number of axes, largest side and largest board (in cells) explored.
MaxD == 3
MaxS == 3
MaxCells == 9

\* The (dimensions, board_size) pairs a Game is constructed with.
Configs ==
  {c \in (1..MaxD) \X (1..MaxS) : c[2] ^ c[1] <= MaxCells}

\* ---------------------------------------------------------------- types
\* enum Player
Player == {"X", "O"}

\* impl Not for Player
Not(p) == IF p = "X" THEN "O" ELSE "X"

\* enum SetError
SetError ==
  {"OutOfBounds", "Occupied", "InvalidDimension", "WrongPlayer", "GameFinished"}

\* enum GameState
Ongoing == [tag |-> "Ongoing"]
Draw == [tag |-> "Draw"]
Victory(p) == [tag |-> "Victory", player |-> p]

\* Option<Player>
None == "None"
Some(p) == p

\* Result<GameState, SetError>
Ok(s) == [kind |-> "Ok", state |-> s]
Err(e) == [kind |-> "Err", error |-> e]

\* No call of set has been made yet on this Game.
NoCall == [kind |-> "NoCall"]

\* The latest call of set panicked on an index out of range (it returned nothing).
IndexPanic == [kind |-> "IndexPanic"]

\* ---------------------------------------------------------------- state
VARIABLES
  dimensions,     \* Game.dimensions
  board_size,     \* Game.board_size
  states,         \* Game.states: flat index 0 .. len-1 -> Option<Player>
  turns,          \* Game.turns
  active_player,  \* Game.active_player
  game_state,     \* Game.game_state
  arg_player,     \* `player` argument of the latest call of set
  arg_position,   \* `position` argument of the latest call of set (1-based sequence)
  ret,            \* value the latest call of set returned
  last_placer,    \* player of the latest call of set that returned Ok
  panicked        \* Game::new panicked on an assertion: no Game exists

game == <<dimensions, board_size, states, turns, active_player, game_state>>
vars == <<dimensions, board_size, states, turns, active_player, game_state,
          arg_player, arg_position, ret, last_placer, panicked>>

\* states.len()
StatesLen(st) == Cardinality(DOMAIN st)

\* ---------------------------------------------------------------- Game::new
\* Variant of new: the board is allocated with board_size * dimensions cells.
new_times(d, s) ==
  /\ panicked = FALSE
  /\ dimensions = d
  /\ board_size = s
  /\ states = [i \in 0 .. (s * d) - 1 |-> None]
  /\ turns = 0
  /\ active_player = "X"
  /\ game_state = Ongoing

\* Variant of new: board_size is not asserted to be non-zero.
new_no_size_assert(d, s) ==
  IF d = 0
  THEN /\ panicked = TRUE
       /\ dimensions = d
       /\ board_size = s
       /\ states = <<>>
       /\ turns = 0
       /\ active_player = "X"
       /\ game_state = Ongoing
  ELSE /\ panicked = FALSE
       /\ dimensions = d
       /\ board_size = s
       /\ states = [i \in 0 .. (s ^ d) - 1 |-> None]
       /\ turns = 0
       /\ active_player = "X"
       /\ game_state = Ongoing

\* assert_ne!(board_size, 0); assert_ne!(dimensions, 0): when one fails the
\* call panics and no Game is built; dimensions and board_size then hold the
\* arguments of the call and the other fields hold no board.
new(d, s) ==
  IF s = 0 \/ d = 0
  THEN /\ panicked = TRUE
       /\ dimensions = d
       /\ board_size = s
       /\ states = <<>>
       /\ turns = 0
       /\ active_player = "X"
       /\ game_state = Ongoing
  ELSE /\ panicked = FALSE
       /\ dimensions = d
       /\ board_size = s
       /\ states = [i \in 0 .. (s ^ d) - 1 |-> None]
       /\ turns = 0
       /\ active_player = "X"
       /\ game_state = Ongoing

\* ---------------------------------------------------------------- Game::idx
\* fold over position.iter().enumerate(): state + board_size.pow(idx) * p
RECURSIVE idx_fold(_, _, _)
idx_fold(position, k, state) ==
  IF k > Len(position) THEN state
  ELSE idx_fold(position, k + 1, state + (board_size ^ (k - 1)) * position[k])

idx(position) == idx_fold(position, 1, 0)

\* self.states[i]: slice indexing, which panics when i is out of range.
index(st, i) == IF i \in DOMAIN st THEN st[i] ELSE "panic"

\* Game::at
at(st, position) == index(st, idx(position))

\* ------------------------------------------------------ Game::calculate_state
\* Variant of others_loop: digit 2 sweeps forward like digit 1 (no mirroring).
RECURSIVE others_loop_nomirror(_, _, _, _)
others_loop_nomirror(pos, sub_dim, others, i) ==
  IF others = 0 THEN pos
  ELSE LET pos1 == IF others % 3 = 0 THEN pos
                   ELSE [pos EXCEPT ![sub_dim + 1] = i]
       IN others_loop_nomirror(pos1, sub_dim + 1, others \div 3, i)

\* The `while others != 0` loop: base-3 digits of `others` rewrite the axes
\* below `dim` (digit 1: i, digit 2: board_size - 1 - i, digit 0: untouched).
RECURSIVE others_loop(_, _, _, _)
others_loop(pos, sub_dim, others, i) ==
  IF others = 0 THEN pos
  ELSE LET pos1 == IF others % 3 = 1 THEN [pos EXCEPT ![sub_dim + 1] = i]
                   ELSE IF others % 3 = 2
                        THEN [pos EXCEPT ![sub_dim + 1] = board_size - 1 - i]
                        ELSE pos
       IN others_loop(pos1, sub_dim + 1, others \div 3, i)

\* `pos` as it is when the cell is read in iteration i of direction (dim, others).
line_pos(position, dim, others, i) ==
  others_loop([position EXCEPT ![dim + 1] = i], 0, others, i)

\* Variant of direction_wins: a cell counts when it holds any mark.
direction_wins_any(st, player, position, dim, others) ==
  \A i \in 0 .. board_size - 1 :
     at(st, line_pos(position, dim, others, i)) # None

\* The `for i` loop runs to its end (no `continue 'other`).
direction_wins(st, player, position, dim, others) ==
  \A i \in 0 .. board_size - 1 :
     at(st, line_pos(position, dim, others, i)) = Some(player)

\* Variant of tested_directions: the last axis is never the swept one.
tested_directions_short ==
  {dr \in (0 .. dimensions - 2) \X (0 .. (3 ^ dimensions) - 1) :
     dr[2] <= (3 ^ dr[1]) - 1}

\* Variant of tested_directions: `others` starts at 1.
tested_directions_from_one ==
  {dr \in (0 .. dimensions - 1) \X (0 .. (3 ^ dimensions) - 1) :
     1 <= dr[2] /\ dr[2] <= (3 ^ dr[1]) - 1}

\* Variant of tested_directions: `others` runs up to 3^dim inclusive.
tested_directions_inclusive ==
  {dr \in (0 .. dimensions - 1) \X (0 .. (3 ^ dimensions) - 1) :
     dr[2] <= 3 ^ dr[1]}

\* The pairs (dim, others) of the two outer loops:
\* for dim in 0..dimensions, for others in 0..3^dim.
tested_directions ==
  {dr \in (0 .. dimensions - 1) \X (0 .. (3 ^ dimensions) - 1) :
     dr[2] <= (3 ^ dr[1]) - 1}

\* The cells direction (dim, others) reads for seed `position`.
direction_cells(position, dim, others) ==
  {line_pos(position, dim, others, i) : i \in 0 .. board_size - 1}

\* The cell-lines the two outer loops test for seed `position`.
tested_lines(position) ==
  {direction_cells(position, dr[1], dr[2]) : dr \in tested_directions}

\* Variant of calculate_state: the board counts as full one turn early.
calculate_state_early(st, trn, player, position) ==
  IF \E dr \in tested_directions :
        direction_wins(st, player, position, dr[1], dr[2])
  THEN Victory(player)
  ELSE IF trn + 1 = StatesLen(st) THEN Draw ELSE Ongoing

\* Variant of calculate_state: the full board is tested before the lines.
calculate_state_draw_first(st, trn, player, position) ==
  IF trn = StatesLen(st) THEN Draw
  ELSE IF \E dr \in tested_directions :
             direction_wins(st, player, position, dr[1], dr[2])
  THEN Victory(player)
  ELSE Ongoing

\* Variant of calculate_state: a full board without a line stays Ongoing.
calculate_state_no_draw(st, trn, player, position) ==
  IF \E dr \in tested_directions :
        direction_wins(st, player, position, dr[1], dr[2])
  THEN Victory(player)
  ELSE IF trn > StatesLen(st) THEN Draw ELSE Ongoing

calculate_state(st, trn, player, position) ==
  IF \E dr \in tested_directions :
        direction_wins(st, player, position, dr[1], dr[2])
  THEN Victory(player)
  ELSE IF trn = StatesLen(st) THEN Draw ELSE Ongoing

\* ---------------------------------------------------------------- Game::set
\* Variant of set_check: the bounds check comes before the length check.
set_check_bounds_first(player, position) ==
  IF game_state # Ongoing THEN "GameFinished"
  ELSE IF player # active_player THEN "WrongPlayer"
  ELSE IF ~ (\A k \in 1 .. Len(position) : position[k] < board_size)
       THEN "OutOfBounds"
  ELSE IF Len(position) # dimensions THEN "InvalidDimension"
  ELSE IF index(states, idx(position)) = "panic" THEN "panic"
  ELSE IF index(states, idx(position)) # None THEN "Occupied"
  ELSE "none"

\* Variant of set_check: a finished game still accepts placements.
set_check_no_finished(player, position) ==
  IF player # active_player THEN "WrongPlayer"
  ELSE IF Len(position) # dimensions THEN "InvalidDimension"
  ELSE IF ~ (\A k \in 1 .. Len(position) : position[k] < board_size)
       THEN "OutOfBounds"
  ELSE IF index(states, idx(position)) = "panic" THEN "panic"
  ELSE IF index(states, idx(position)) # None THEN "Occupied"
  ELSE "none"

\* Variant of set_check: the coordinates are not checked against board_size.
set_check_no_bounds(player, position) ==
  IF game_state # Ongoing THEN "GameFinished"
  ELSE IF player # active_player THEN "WrongPlayer"
  ELSE IF Len(position) # dimensions THEN "InvalidDimension"
  ELSE IF index(states, idx(position)) = "panic" THEN "panic"
  ELSE IF index(states, idx(position)) # None THEN "Occupied"
  ELSE "none"

\* Variant of set_check: an occupied cell is accepted.
set_check_no_occupied(player, position) ==
  IF game_state # Ongoing THEN "GameFinished"
  ELSE IF player # active_player THEN "WrongPlayer"
  ELSE IF Len(position) # dimensions THEN "InvalidDimension"
  ELSE IF ~ (\A k \in 1 .. Len(position) : position[k] < board_size)
       THEN "OutOfBounds"
  ELSE "none"

\* The five early returns, in the order of the code; "none" when all pass,
\* "panic" when self.states[idx] is out of range.
set_check(player, position) ==
  IF game_state # Ongoing THEN "GameFinished"
  ELSE IF player # active_player THEN "WrongPlayer"
  ELSE IF Len(position) # dimensions THEN "InvalidDimension"
  ELSE IF ~ (\A k \in 1 .. Len(position) : position[k] < board_size)
       THEN "OutOfBounds"
  ELSE IF index(states, idx(position)) = "panic" THEN "panic"
  ELSE IF index(states, idx(position)) # None THEN "Occupied"
  ELSE "none"

\* Variant of set: the mark is written before the occupancy check.
set_write_first(player, position) ==
  /\ arg_player' = player
  /\ arg_position' = position
  /\ UNCHANGED <<dimensions, board_size>>
  /\ LET e == set_check(player, position) IN
     IF e = "Occupied"
     THEN /\ states' = [states EXCEPT ![idx(position)] = Some(player)]
          /\ ret' = Err(e)
          /\ UNCHANGED <<turns, active_player, game_state, last_placer>>
     ELSE IF e # "none"
     THEN /\ ret' = Err(e)
          /\ UNCHANGED <<states, turns, active_player, game_state, last_placer>>
     ELSE /\ states' = [states EXCEPT ![idx(position)] = Some(player)]
          /\ turns' = turns + 1
          /\ game_state' = calculate_state(states', turns', player, position)
          /\ active_player' = Not(player)
          /\ ret' = Ok(game_state')
          /\ last_placer' = player

\* Variant of set: the turn counter is not incremented.
set_no_turn(player, position) ==
  /\ arg_player' = player
  /\ arg_position' = position
  /\ UNCHANGED <<dimensions, board_size>>
  /\ LET e == set_check(player, position) IN
     IF e # "none"
     THEN /\ ret' = Err(e)
          /\ UNCHANGED <<states, turns, active_player, game_state, last_placer>>
     ELSE /\ states' = [states EXCEPT ![idx(position)] = Some(player)]
          /\ turns' = turns
          /\ game_state' = calculate_state(states', turns', player, position)
          /\ active_player' = Not(player)
          /\ ret' = Ok(game_state')
          /\ last_placer' = player

\* Variant of set: the active player is not flipped when the placement wins.
set_no_flip_on_win(player, position) ==
  /\ arg_player' = player
  /\ arg_position' = position
  /\ UNCHANGED <<dimensions, board_size>>
  /\ LET e == set_check(player, position) IN
     IF e # "none"
     THEN /\ ret' = Err(e)
          /\ UNCHANGED <<states, turns, active_player, game_state, last_placer>>
     ELSE /\ states' = [states EXCEPT ![idx(position)] = Some(player)]
          /\ turns' = turns + 1
          /\ game_state' = calculate_state(states', turns', player, position)
          /\ active_player' = IF game_state' = Ongoing THEN Not(player) ELSE player
          /\ ret' = Ok(game_state')
          /\ last_placer' = player

\* Variant of set: the active player is flipped before the outcome is
\* computed, and the outcome is computed for the active player.
set_flip_first(player, position) ==
  /\ arg_player' = player
  /\ arg_position' = position
  /\ UNCHANGED <<dimensions, board_size>>
  /\ LET e == set_check(player, position) IN
     IF e # "none"
     THEN /\ ret' = Err(e)
          /\ UNCHANGED <<states, turns, active_player, game_state, last_placer>>
     ELSE /\ states' = [states EXCEPT ![idx(position)] = Some(player)]
          /\ turns' = turns + 1
          /\ active_player' = Not(player)
          /\ game_state' = calculate_state(states', turns', active_player', position)
          /\ ret' = Ok(game_state')
          /\ last_placer' = player

set(player, position) ==
  /\ arg_player' = player
  /\ arg_position' = position
  /\ UNCHANGED <<dimensions, board_size>>
  /\ LET e == set_check(player, position) IN
     IF e # "none"
     THEN /\ ret' = IF e = "panic" THEN IndexPanic ELSE Err(e)
          /\ UNCHANGED <<states, turns, active_player, game_state, last_placer>>
     ELSE /\ states' = [states EXCEPT ![idx(position)] = Some(player)]
          /\ turns' = turns + 1
          /\ game_state' = calculate_state(states', turns', player, position)
          /\ active_player' = Not(player)
          /\ ret' = Ok(game_state')
          /\ last_placer' = player

\* ---------------------------------------------------------------- inputs
\* Positions a caller passes: every sequence of the right length with
\* coordinates 0 .. board_size (board_size itself is out of range), and
\* sequences one shorter or one longer, in range (0) or out of range.
RECURSIVE Fill(_, _)
Fill(n, v) == IF n = 0 THEN <<>> ELSE Append(Fill(n - 1, v), v)

Positions ==
  [1 .. dimensions -> 0 .. board_size]
    \cup [1 .. dimensions - 1 -> {0, board_size}]
    \cup {Fill(dimensions + 1, 0), Fill(dimensions + 1, board_size)}

\* ---------------------------------------------------------------- system
Init ==
  /\ \E c \in Configs : new(c[1], c[2])
  /\ arg_player = "X"
  /\ arg_position = <<>>
  /\ ret = NoCall
  /\ last_placer = None

\* set is called on a Game, so only when new returned one.
Next ==
  /\ ~panicked
  /\ UNCHANGED panicked
  /\ \E player \in Player : \E position \in Positions : set(player, position)

Spec == Init /\ [][Next]_vars

\* Game::new called with any arguments, zero included.
NewArgs ==
  {c \in (0 .. MaxD) \X (0 .. MaxS) :
     c[1] = 0 \/ c[2] = 0 \/ c[2] ^ c[1] <= MaxCells}

InitNew ==
  /\ \E c \in NewArgs : new(c[1], c[2])
  /\ arg_player = "X"
  /\ arg_position = <<>>
  /\ ret = NoCall
  /\ last_placer = None

SpecNew == InitNew /\ [][Next]_vars

\* Calls of set by the player whose turn it is, with a well-formed position
\* (they can still fail with GameFinished or Occupied).
NextPlay ==
  /\ ~panicked
  /\ UNCHANGED panicked
  /\ \E position \in [1 .. dimensions -> 0 .. board_size - 1] :
        set(active_player, position)

\* A call of set that places a mark.
place ==
  /\ ~panicked
  /\ game_state = Ongoing
  /\ UNCHANGED panicked
  /\ \E position \in [1 .. dimensions -> 0 .. board_size - 1] :
        /\ index(states, idx(position)) = None
        /\ set(active_player, position)
        /\ ret'.kind = "Ok"

\* Legal placements keep being made for as long as one is possible.
SpecPlay == Init /\ [][NextPlay]_vars /\ WF_vars(place)

\* calculate_state as a function of any board contents: the value it returns.
Calculated(s) == [kind |-> "Calculated", state |-> s]

\* Any board contents of a Game, reachable through set or not.
InitCalc ==
  /\ \E c \in Configs :
        /\ dimensions = c[1]
        /\ board_size = c[2]
        /\ states \in [0 .. (c[2] ^ c[1]) - 1 -> {None, "X", "O"}]
  /\ turns = Cardinality({i \in DOMAIN states : states[i] # None})
  /\ active_player = "X"
  /\ game_state = Ongoing
  /\ panicked = FALSE
  /\ arg_player = "X"
  /\ arg_position = <<>>
  /\ ret = NoCall
  /\ last_placer = None

\* One call self.calculate_state(player, position) on that board.
calculate(player, position) ==
  /\ ret = NoCall
  /\ arg_player' = player
  /\ arg_position' = position
  /\ ret' = Calculated(calculate_state(states, turns, player, position))
  /\ UNCHANGED <<dimensions, board_size, states, turns, active_player,
                 game_state, last_placer, panicked>>

NextCalc ==
  \E player \in Player :
    \E position \in [1 .. dimensions -> 0 .. board_size - 1] :
       calculate(player, position)

SpecCalc == InitCalc /\ [][NextCalc]_vars

\* ------------------------------------------------------------ straight lines
\* A straight line of the board, stated on coordinates: every axis is swept
\* forward (i), mirrored (board_size - 1 - i) or held constant, not all constant.
Roles == {"fwd", "mir", "const"}

Coords == [1 .. dimensions -> 0 .. board_size - 1]

LineCell(r, c, i) ==
  [k \in 1 .. dimensions |->
     IF r[k] = "fwd" THEN i
     ELSE IF r[k] = "mir" THEN board_size - 1 - i
     ELSE c[k]]

LineCells(r, c) == {LineCell(r, c, i) : i \in 0 .. board_size - 1}

LineRoles == {r \in [1 .. dimensions -> Roles] : \E k \in 1 .. dimensions : r[k] # "const"}

StraightLines == {LineCells(r, c) : r \in LineRoles, c \in Coords}

\* Flat index of a coordinate, least-significant axis first (Horner form).
RECURSIVE FlatIndex(_)
FlatIndex(q) ==
  IF Len(q) = 0 THEN 0
  ELSE q[1] + board_size * FlatIndex(Tail(q))

Owned(st, p, L) == \A q \in L : st[FlatIndex(q)] = p

\* Some straight line through cell q is fully occupied by p.
FullLineThrough(st, p, q) == \E L \in StraightLines : q \in L /\ Owned(st, p, L)

\* Some straight line anywhere on the board is fully occupied by p.
\* (The constant is read on the axes held constant only, so it is taken 0 on
\* the swept axes: each line is then visited once per role assignment.)
FullLine(st, p) ==
  \E r \in LineRoles : \E c \in Coords :
     /\ \A k \in 1 .. dimensions : r[k] # "const" => c[k] = 0
     /\ \A i \in 0 .. board_size - 1 : st[FlatIndex(LineCell(r, c, i))] = p

Succeeded == ret.kind = "Ok"
Failed == ret.kind = "Err"

\* ---------------------------------------------------------------- claims

\* C1: a placement that passes the five checks returns Victory(P) exactly
\* when, with the mark on the board, some straight line through the placed
\* cell is fully occupied by P.
C1_VictoryIffLineThroughCell ==
  Succeeded =>
    (ret.state = Victory(arg_player)
       <=> FullLineThrough(states, arg_player, arg_position))

\* A win on a 2 x 2 x 2 board along a line with one axis forward, one mirrored and one
\* constant, where the placed cell is the first cell of the sweep.
C1_Witness ==
  /\ Succeeded
  /\ dimensions = 3
  /\ board_size = 2
  /\ ret.state = Victory(arg_player)
  /\ \E r \in LineRoles : \E c \in Coords :
        /\ {r[k] : k \in 1 .. dimensions} = Roles
        /\ r[3] = "mir"
        /\ arg_position = LineCell(r, c, 0)
        /\ Owned(states, arg_player, LineCells(r, c))

\* The five checks of set, each stated on the state before the call.
Check1(pl, pos) == game_state # Ongoing
Check2(pl, pos) == pl # active_player
Check3(pl, pos) == Len(pos) # dimensions
Check4(pl, pos) == \E k \in 1 .. Len(pos) : pos[k] >= board_size
Check5(pl, pos) == states[FlatIndex(pos)] # None

\* C2: set reports the first failing check in the order GameFinished,
\* WrongPlayer, InvalidDimension, OutOfBounds, Occupied, and returns Ok only
\* when none of the five fails.
C2_FirstFailingCheck ==
  [][LET pl == arg_player'
         pos == arg_position'
     IN  /\ (ret' = Err("GameFinished")) <=> Check1(pl, pos)
         /\ (ret' = Err("WrongPlayer")) <=> (~Check1(pl, pos) /\ Check2(pl, pos))
         /\ (ret' = Err("InvalidDimension"))
              <=> (~Check1(pl, pos) /\ ~Check2(pl, pos) /\ Check3(pl, pos))
         /\ (ret' = Err("OutOfBounds"))
              <=> (~Check1(pl, pos) /\ ~Check2(pl, pos) /\ ~Check3(pl, pos)
                     /\ Check4(pl, pos))
         /\ (ret' = Err("Occupied"))
              <=> (~Check1(pl, pos) /\ ~Check2(pl, pos) /\ ~Check3(pl, pos)
                     /\ ~Check4(pl, pos) /\ Check5(pl, pos))
         /\ (ret'.kind = "Ok")
              <=> (~Check1(pl, pos) /\ ~Check2(pl, pos) /\ ~Check3(pl, pos)
                     /\ ~Check4(pl, pos) /\ ~Check5(pl, pos))]_vars

\* The active player passed a position of the wrong length that also has an
\* out-of-range coordinate, and got InvalidDimension.
C2_Witness ==
  /\ ret = Err("InvalidDimension")
  /\ turns > 0
  /\ \E k \in 1 .. Len(arg_position) : arg_position[k] >= board_size

\* C3: whenever set returns an Err, the board, the turn count, the active
\* player and the outcome are what they were before the call.
C3_ErrLeavesStateUnchanged ==
  [][ret'.kind = "Err" => UNCHANGED game]_vars

\* The active player was refused an occupied cell in an ongoing game.
C3_Witness ==
  /\ ret = Err("Occupied")
  /\ arg_player = active_player
  /\ states[FlatIndex(arg_position)] = Not(arg_player)

\* C4: once the outcome is Victory or Draw, every call of set returns
\* Err(GameFinished) and the outcome, board, turn count and active player
\* never change again.
C4_TerminalAbsorbing ==
  [][game_state # Ongoing => (ret' = Err("GameFinished") /\ UNCHANGED game)]_vars

\* After a win, the player whose turn it would be asked for an empty cell of
\* the board and was refused with GameFinished.
C4_Witness ==
  /\ game_state.tag = "Victory"
  /\ ret = Err("GameFinished")
  /\ arg_player = active_player
  /\ arg_position \in Coords
  /\ states[FlatIndex(arg_position)] = None

\* C5: after a successful placement the outcome is Draw exactly when the turn
\* count is board_size^dimensions and no straight line is fully occupied by
\* the placing player; a Draw leaves no empty cell, and a placement that does
\* not win and leaves an empty cell yields Ongoing.
C5_DrawIffFullNoLine ==
  Succeeded =>
    /\ (game_state = Draw)
         <=> (turns = board_size ^ dimensions /\ ~FullLine(states, arg_player))
    /\ (game_state = Draw) => (\A i \in DOMAIN states : states[i] # None)
    /\ (~FullLine(states, arg_player) /\ (\E i \in DOMAIN states : states[i] = None))
         => game_state = Ongoing

\* A 3 x 3 game that ended in a Draw with the ninth placement.
C5_Witness ==
  /\ Succeeded
  /\ ret.state = Draw
  /\ dimensions = 2
  /\ board_size = 3
  /\ turns = 9

\* C6: turns grows by exactly 1 on a successful placement, is unchanged by a
\* failed one, and never exceeds board_size^dimensions.
C6_TurnsCount ==
  /\ [](turns <= board_size ^ dimensions)
  /\ [][/\ ret'.kind = "Ok" => turns' = turns + 1
        /\ ret'.kind = "Err" => turns' = turns]_vars

\* The last cell of a 3 x 3 board was filled by a successful placement.
C6_Witness ==
  /\ Succeeded
  /\ dimensions = 2
  /\ board_size = 3
  /\ turns = board_size ^ dimensions

\* C7: the k-th successful placement is by X iff k is odd, and after every
\* successful placement by P, also one that ends the game, the active player
\* is the other player.
C7_StrictAlternation ==
  Succeeded =>
    /\ (arg_player = "X") <=> (turns % 2 = 1)
    /\ active_player = Not(arg_player)

\* O made a placement that won the game, and X is now the active player.
C7_Witness ==
  /\ ret = Ok(Victory("O"))
  /\ arg_player = "O"
  /\ active_player = "X"

\* C8: a successful placement changes exactly the cell at the position, from
\* unoccupied to the placing player; the board keeps board_size^dimensions
\* cells, and an occupied cell is never cleared and never changes owner.
C8_BoardFrame ==
  /\ [](DOMAIN states = 0 .. (board_size ^ dimensions) - 1)
  /\ [][/\ ret'.kind = "Ok" =>
             /\ states[FlatIndex(arg_position')] = None
             /\ states'[FlatIndex(arg_position')] = arg_player'
             /\ \A i \in DOMAIN states :
                  i # FlatIndex(arg_position') => states'[i] = states[i]
        /\ DOMAIN states' = DOMAIN states
        /\ \A i \in DOMAIN states : states[i] # None => states'[i] = states[i]]_vars

\* O placed a mark on a 3 x 3 board that already held four marks.
C8_Witness ==
  /\ Succeeded
  /\ arg_player = "O"
  /\ dimensions = 2
  /\ board_size = 3
  /\ turns = 6
  /\ states[FlatIndex(arg_position)] = "O"

\* C9: a freshly constructed Game has outcome Ongoing, turn count 0, active
\* player X and a board of board_size^dimensions cells, all unoccupied.
C9_FreshGame ==
  ret = NoCall =>
    /\ game_state = Ongoing
    /\ turns = 0
    /\ active_player = "X"
    /\ DOMAIN states = 0 .. (board_size ^ dimensions) - 1
    /\ \A i \in DOMAIN states : states[i] = None

\* A fresh Game of 2 axes and side 3.
C9_Witness ==
  /\ ret = NoCall
  /\ dimensions = 2
  /\ board_size = 3
  /\ Cardinality(DOMAIN states) = 9

\* C10: set never returns Victory of the player who did not place, and in
\* every state with outcome Victory(P), P made the last successful placement.
C10_OnlyPlacerWins ==
  /\ (Succeeded /\ ret.state.tag = "Victory") => ret.state = Victory(arg_player)
  /\ game_state.tag = "Victory" => game_state = Victory(last_placer)

\* O won a 3 x 3 game with its third mark, and a later call (by X) was refused.
C10_Witness ==
  /\ game_state = Victory("O")
  /\ last_placer = "O"
  /\ dimensions = 2
  /\ board_size = 3
  /\ Failed
  /\ arg_player = "X"

\* The placements of tests::game3x3, in order.
Script ==
  << <<"X", <<1, 1>>>>, <<"O", <<0, 0>>>>, <<"X", <<2, 0>>>>,
     <<"O", <<0, 2>>>>, <<"X", <<0, 1>>>>, <<"O", <<2, 1>>>>,
     <<"X", <<1, 0>>>>, <<"O", <<2, 2>>>>, <<"X", <<1, 2>>>> >>

\* The 3 x 3 board holding the first k placements of the script.
ScriptBoard(k) ==
  [i \in 0 .. (3 ^ 2) - 1 |->
     IF \E j \in 1 .. k : FlatIndex(Script[j][2]) = i
     THEN Script[CHOOSE j \in 1 .. k : FlatIndex(Script[j][2]) = i][1]
     ELSE None]

\* What the test expects the k-th placement to return.
ScriptOutcome(k) == IF k = Len(Script) THEN Victory("X") ELSE Ongoing

\* The Game after the first k placements of the script.
AtScript(k) ==
  /\ dimensions = 2
  /\ board_size = 3
  /\ turns = k
  /\ game_state = ScriptOutcome(k)
  /\ active_player = (IF k % 2 = 0 THEN "X" ELSE "O")
  /\ states = ScriptBoard(k)

\* C11: on a fresh 3 x 3 Game the nine placements of tests::game3x3 return
\* Ok(Ongoing) eight times and then Ok(Victory(X)), game_state() is then
\* Victory(X); and whatever set returns in Ok is the outcome game_state()
\* reports right afterwards.
C11_Game3x3Script ==
  /\ []((ret = NoCall /\ dimensions = 2 /\ board_size = 3) => AtScript(0))
  /\ [](Succeeded => ret.state = game_state)
  /\ [][\A k \in 1 .. Len(Script) :
          (/\ turns = k - 1
           /\ arg_player' = Script[k][1]
           /\ arg_position' = Script[k][2]
           /\ AtScript(k - 1))
            => (ret' = Ok(ScriptOutcome(k)) /\ AtScript(k)')]_vars

\* The ninth placement of the script, X at (1, 2), has just won the game.
C11_Witness ==
  /\ AtScript(9)
  /\ ret = Ok(Victory("X"))
  /\ arg_player = "X"
  /\ arg_position = <<1, 2>>
  /\ game_state = Victory("X")

\* C12: Game::new with dimensions = 0 or board_size = 0 panics on its
\* assertion and builds no Game (no board is allocated, set is never called);
\* every Game that exists has dimensions >= 1 and board_size >= 1.
C12_ZeroArgumentsRefused ==
  /\ (dimensions = 0 \/ board_size = 0) => panicked
  /\ panicked => (DOMAIN states = {} /\ ret = NoCall)
  /\ ~panicked => (dimensions >= 1 /\ board_size >= 1
                    /\ StatesLen(states) >= 1)

\* Game::new(0, 3) panicked.
C12_Witness ==
  /\ panicked
  /\ dimensions = 0
  /\ board_size = 3

\* C13: in every reachable state game_state() is Victory(P) exactly when the
\* board holds a straight line fully occupied by P; so in an Ongoing or Draw
\* state no straight line anywhere is fully occupied by one player.
C13_VictoryIffLineOnBoard ==
  LET owners == {p \in Player : FullLine(states, p)}
  IN  /\ \A p \in Player : (game_state = Victory(p)) <=> (p \in owners)
      /\ (game_state = Ongoing \/ game_state = Draw) => owners = {}

\* A 3 x 3 game O won on a diagonal swept with one axis mirrored, by placing
\* the middle cell of that line last.
C13_Witness ==
  /\ dimensions = 2
  /\ board_size = 3
  /\ Succeeded
  /\ game_state = Victory("O")
  /\ arg_position = <<1, 1>>
  /\ Owned(states, "O", {<<0, 2>>, <<1, 1>>, <<2, 0>>})

\* The reference enumeration for seed q: every assignment of forward,
\* mirrored or pinned (at q's coordinate) to the axes, except all pinned.
RefLines(q) == {LineCells(r, q) : r \in LineRoles}

RefWins(st, p, q) == \E L \in RefLines(q) : Owned(st, p, L)

\* C14: for any board contents, player P and seed position, calculate_state
\* returns Victory(P) exactly when the reference enumeration finds a line
\* whose cells are all P's, and the cell-lines calculate_state tests are
\* the cell-lines the reference generates.
C14_MatchesReference ==
  ret.kind = "Calculated" =>
    /\ (ret.state = Victory(arg_player))
         <=> RefWins(states, arg_player, arg_position)
    /\ tested_lines(arg_position) = RefLines(arg_position)

\* A 3 x 3 board no game reaches (three marks of O on a diagonal, none of
\* X), on which calculate_state for O, seeded at an empty cell off that
\* diagonal, returned Victory(O).
C14_Witness ==
  /\ dimensions = 2
  /\ board_size = 3
  /\ Owned(states, "O", {<<0, 2>>, <<1, 1>>, <<2, 0>>})
  /\ \A i \in DOMAIN states : states[i] # "X"
  /\ turns = 3
  /\ ret = Calculated(Victory("O"))
  /\ states[FlatIndex(arg_position)] = None

\* The latest call of set placed a mark and did not win.
PlacedNoWin == Succeeded /\ ret.state.tag # "Victory"

\* C15 as stated: for a placement that does not win, win detection examines
\* 3^dimensions - 1 directions, each of at most board_size cells.
C15_Original ==
  PlacedNoWin =>
    /\ Cardinality(tested_directions) = (3 ^ dimensions) - 1
    /\ \A dr \in tested_directions :
         Cardinality(direction_cells(arg_position, dr[1], dr[2])) <= board_size

\* C15 (amended): for a placement that does not win, win detection examines
\* (3^dimensions - 1) / 2 directions, each of at most board_size cells; they
\* are distinct lines when board_size >= 2, and their cell-lines are those of
\* all 3^dimensions - 1 forward/mirrored/pinned assignments, each assignment
\* giving the same cells as its reversal.
C15_HalfTheDirections ==
  PlacedNoWin =>
    /\ Cardinality(tested_directions) = ((3 ^ dimensions) - 1) \div 2
    /\ \A dr \in tested_directions :
         Cardinality(direction_cells(arg_position, dr[1], dr[2])) <= board_size
    /\ board_size >= 2 =>
         Cardinality(tested_lines(arg_position)) = ((3 ^ dimensions) - 1) \div 2
    /\ Cardinality(LineRoles) = (3 ^ dimensions) - 1
    /\ tested_lines(arg_position) = RefLines(arg_position)

\* The first placement on a 2 x 2 x 2 board: it does not win, and all 13
\* directions were examined.
C15_Witness ==
  /\ PlacedNoWin
  /\ dimensions = 3
  /\ board_size = 2
  /\ turns = 1
  /\ Cardinality(tested_lines(arg_position)) = 13

\* C16: with board_size = 1 the first successful placement, by X at the
\* all-zero position, returns Ok(Victory(X)): a win, not a Draw, although the
\* board is then full.
C16_SingleCellWin ==
  (board_size = 1 /\ Succeeded) =>
    /\ ret = Ok(Victory("X"))
    /\ game_state = Victory("X")
    /\ arg_player = "X"
    /\ arg_position = [k \in 1 .. dimensions |-> 0]
    /\ turns = 1
    /\ turns = StatesLen(states)

\* X won a 1 x 1 x 1 game with the first placement.
C16_Witness ==
  /\ board_size = 1
  /\ dimensions = 3
  /\ ret = Ok(Victory("X"))
  /\ arg_position = <<0, 0, 0>>
  /\ turns = 1

\* C17: when a successful placement fills the last empty cell and also
\* completes a line of the placing player P, the outcome is Victory(P), not
\* Draw.
C17_WinBeforeDraw ==
  (Succeeded /\ turns = board_size ^ dimensions
             /\ FullLineThrough(states, arg_player, arg_position))
    => (game_state = Victory(arg_player) /\ ret = Ok(Victory(arg_player)))

\* X filled the ninth cell of a 3 x 3 board and completed a line with it.
C17_Witness ==
  /\ Succeeded
  /\ dimensions = 2
  /\ board_size = 3
  /\ turns = 9
  /\ \A i \in DOMAIN states : states[i] # None
  /\ FullLineThrough(states, "X", arg_position)
  /\ game_state = Victory("X")

\* The active player has a placement that set accepts.
HasLegalPlacement ==
  \E position \in Coords : set_check(active_player, position) = "none"

\* C18: while the outcome is Ongoing there is an empty cell and the active
\* player has a legal placement (turns < board_size^dimensions); once
\* board_size^dimensions placements are made the outcome is Victory or Draw;
\* and if legal placements keep being made a terminal outcome is reached.
C18_EveryMatchEnds ==
  /\ [](game_state = Ongoing =>
          /\ turns < board_size ^ dimensions
          /\ \E i \in DOMAIN states : states[i] = None
          /\ HasLegalPlacement)
  /\ [](turns = board_size ^ dimensions => game_state # Ongoing)
  /\ <>(game_state # Ongoing)

\* A 3 x 3 game that went on until the board was full and then ended.
C18_Witness ==
  /\ dimensions = 2
  /\ board_size = 3
  /\ turns = 9
  /\ Succeeded
  /\ game_state # Ongoing

\* C19: set never indexes the board out of range: the board is indexed only
\* for a position that passed the dimension and bounds checks, the flat
\* index maps the valid coordinates one-to-one onto 0 .. board_size^dimensions
\* - 1, and every position win detection builds has `dimensions` coordinates
\* within 0 .. board_size - 1.
C19_IndexInRange ==
  /\ ret # IndexPanic
  /\ (Succeeded \/ ret = Err("Occupied")) =>
        (arg_position \in Coords /\ idx(arg_position) \in DOMAIN states)
  /\ ret = NoCall =>
        \* idx reads board_size only, which never changes: once per Game
        /\ \A q \in Coords : idx(q) \in 0 .. (board_size ^ dimensions) - 1
        /\ \A q1 \in Coords : \A q2 \in Coords : idx(q1) = idx(q2) => q1 = q2
        /\ {idx(q) : q \in Coords} = DOMAIN states
  /\ Succeeded =>
        \A dr \in tested_directions :
           direction_cells(arg_position, dr[1], dr[2]) \subseteq Coords

\* A call with an out-of-range coordinate was refused on a 3 x 3 board whose
\* last cell (flat index 8) is taken.
C19_Witness ==
  /\ dimensions = 2
  /\ board_size = 3
  /\ ret = Err("OutOfBounds")
  /\ arg_position = <<3, 3>>
  /\ states[idx(<<2, 2>>)] # None
  /\ idx(<<2, 2>>) = 8

\* C20: in every reachable state the board holds ceil(turns / 2) marks of X
\* and floor(turns / 2) marks of O: the occupied cells number turns, and X
\* has as many marks as O or one more.
Marks(p) == Cardinality({i \in DOMAIN states : states[i] = p})

C20_MarkCounts ==
  /\ Marks("X") = (turns + 1) \div 2
  /\ Marks("O") = turns \div 2
  /\ Marks("X") + Marks("O") = turns
  /\ Marks("O") <= Marks("X")
  /\ Marks("X") <= Marks("O") + 1

\* A full 3 x 3 board: five marks of X and four of O.
C20_Witness ==
  /\ dimensions = 2
  /\ board_size = 3
  /\ turns = 9
  /\ Marks("X") = 5
  /\ Marks("O") = 4

====
